---- MODULE Spec2Model ----
(***************************************************************************)
(* SettingsValidator (src/main/commandServer/settingsValidator.ts).        *)
(*                                                                         *)
(* JavaScript values are records with a type tag t and one payload field   *)
(* per type; strings are sequences of one-character strings, because the   *)
(* code looks inside them (the version pattern, the sort of the map        *)
(* entries).  Numbers are integers.  An object is the sequence kv of its   *)
(* own properties in insertion order, which is the order of for..in and    *)
(* of Object.entries for names that are not array indices.  Arrays are     *)
(* not modelled.                                                           *)
(***************************************************************************)
EXTENDS Integers, Sequences, FiniteSets, TLC

\* The validator's fields; then the call in progress: where it stands (pc),
\* the method called (op), its arguments as passed, and what it came to
\* (result): the proposed tree as the call left it, the walk's flag, the
\* error list, the leaf validators called, the returned ok, and whether the
\* call threw instead of returning.
VARIABLES k8sVersions, allowedSettings, synonymsTable,
          pc, op, currentSettings, proposed, result

vars == <<k8sVersions, allowedSettings, synonymsTable, pc, op, currentSettings,
          proposed, result>>

----------------------------------------------------------------------------
(* JavaScript values *)

Bool(x) == [t |-> "boolean", b |-> x, n |-> 0, s |-> <<>>, kv |-> <<>>]
Num(x) == [t |-> "number", b |-> FALSE, n |-> x, s |-> <<>>, kv |-> <<>>]
Str(x) == [t |-> "string", b |-> FALSE, n |-> 0, s |-> x, kv |-> <<>>]
Obj(x) == [t |-> "object", b |-> FALSE, n |-> 0, s |-> <<>>, kv |-> x]
Null == [t |-> "null", b |-> FALSE, n |-> 0, s |-> <<>>, kv |-> <<>>]
Undefined == [t |-> "undefined", b |-> FALSE, n |-> 0, s |-> <<>>, kv |-> <<>>]
\* a built-in method found on Object.prototype
Builtin(name) == [t |-> "function", b |-> FALSE, n |-> 0, s |-> <<name>>, kv |-> <<>>]

\* typeof v
TypeOf(v) == IF v.t = "null" THEN "object" ELSE v.t

HasOwn(o, k) == \E i \in 1..Len(o.kv) : o.kv[i].k = k
GetOwn(o, k) == o.kv[CHOOSE i \in 1..Len(o.kv) : o.kv[i].k = k].v

\* The names every object literal inherits from Object.prototype; the model
\* carries two of them: toString, which returns a non-empty string whatever
\* its arguments, and __defineGetter__, which throws a TypeError when its
\* second argument is not callable.
ObjectPrototypeNames == {"toString", "__defineGetter__"}

\* k in o, for an object o
In(k, o) == HasOwn(o, k) \/ k \in ObjectPrototypeNames

\* o[k], for a value o that is neither null nor undefined
Get(o, k) ==
  IF HasOwn(o, k) THEN GetOwn(o, k)
  ELSE IF k \in ObjectPrototypeNames THEN Builtin(k)
  ELSE Undefined

\* String(v) throws for an object whose own toString is not callable (no
\* value of a parsed tree is callable): valueOf then returns the object.
ToStringThrows(v) == v.t = "object" /\ HasOwn(v, "toString")

\* string literals of the source
S_true == <<"t", "r", "u", "e">>
S_false == <<"f", "a", "l", "s", "e">>
S_docker == <<"d", "o", "c", "k", "e", "r">>
S_moby == <<"m", "o", "b", "y">>
S_containerd == <<"c", "o", "n", "t", "a", "i", "n", "e", "r", "d">>

\* members of the PathManagementStrategy enumeration
S_notset == <<"n", "o", "t", "s", "e", "t">>
S_manual == <<"m", "a", "n", "u", "a", "l">>
S_rcfiles == <<"r", "c", "f", "i", "l", "e", "s">>
PathManagementStrategy == [NotSet |-> Str(S_notset), Manual |-> Str(S_manual),
                           RcFiles |-> Str(S_rcfiles)]
PathManagementStrategyValues ==
  {PathManagementStrategy.NotSet, PathManagementStrategy.Manual,
   PathManagementStrategy.RcFiles}

----------------------------------------------------------------------------
(* The verifier tree built by validateSettings *)

Validator(fn) == [t |-> "function", fn |-> fn, min |-> 0, max |-> 0,
                  maxIsInfinity |-> FALSE, kv |-> <<>>]
NumberValidator(min, max, inf) ==
  [t |-> "function", fn |-> "checkNumber", min |-> min, max |-> max,
   maxIsInfinity |-> inf, kv |-> <<>>]
Branch(kv) == [t |-> "object", fn |-> "", min |-> 0, max |-> 0,
               maxIsInfinity |-> FALSE, kv |-> kv]
NoTable == [t |-> "null", fn |-> "", min |-> 0, max |-> 0,
            maxIsInfinity |-> FALSE, kv |-> <<>>]
P(k, v) == [k |-> k, v |-> v]

MinPort == 1
MaxPort == 65535

AllowedSettingsTable ==
  Branch(<<
    P("version", Validator("checkUnchanged")),
    P("kubernetes", Branch(<<
      P("version", Validator("checkKubernetesVersion")),
      P("memoryInGB", NumberValidator(0, 0, TRUE)),
      P("numberCPUs", NumberValidator(0, 0, TRUE)),
      P("port", NumberValidator(MinPort, MaxPort, FALSE)),
      P("containerEngine", Validator("checkContainerEngine")),
      P("checkForExistingKimBuilder", Validator("checkUnchanged")),
      P("enabled", Validator("checkBoolean")),
      P("WSLIntegrations", Validator("checkWSLIntegrations")),
      P("options", Branch(<<P("traefik", Validator("checkBoolean")),
                            P("flannel", Validator("checkBoolean"))>>)),
      P("suppressSudo", Validator("checkBoolean")),
      P("experimentalHostResolver", Validator("checkBoolean"))>>)),
    P("portForwarding", Branch(<<
      P("includeKubernetesServices", Validator("checkBoolean"))>>)),
    P("images", Branch(<<P("showAll", Validator("checkBoolean")),
                         P("namespace", Validator("checkString"))>>)),
    P("telemetry", Validator("checkBoolean")),
    P("updater", Validator("checkBoolean")),
    P("debug", Validator("checkBoolean")),
    P("pathManagementStrategy", Validator("checkPathManagementStrategy"))>>)

SynonymsTable ==
  Branch(<<
    P("kubernetes", Branch(<<
      P("version", Validator("canonicalizeKubernetesVersion")),
      P("containerEngine", Validator("canonicalizeContainerEngine")),
      P("enabled", Validator("canonicalizeBool")),
      P("options", Branch(<<P("flannel", Validator("canonicalizeBool"))>>))>>))>>)

\* table[k], for a table built from an object literal
TableGet(table, k) ==
  IF HasOwn(table, k) THEN GetOwn(table, k)
  ELSE IF k \in ObjectPrototypeNames THEN Validator(k)
  ELSE NoTable

----------------------------------------------------------------------------
(* Error messages: the template of the source with its substituted values *)

Err(msg, fqname, value) == [msg |-> msg, fqname |-> fqname, value |-> value]

invalidSettingMessage(fqname, desiredValue) ==
  Err("Invalid value for ${fqname}: <${desiredValue}>", fqname, desiredValue)

notSupported(fqname) ==
  Err("Changing field ${fqname} via the API isn't supported.", fqname, Undefined)

\* what a validator hands back: its return value, the error list, and
\* whether it threw instead of returning
Ret(changed, errs) == [changed |-> changed, errors |-> errs, thrown |-> FALSE]
Throw(errs) == [changed |-> FALSE, errors |-> errs, thrown |-> TRUE]

----------------------------------------------------------------------------
(* Leaf validators *)

\* checkBoolean with the comparison the wrong way round
checkBoolean_Inverted(currentValue, desiredValue, errs, fqname) ==
  IF TypeOf(desiredValue) # "boolean"
  THEN Ret(FALSE, Append(errs, invalidSettingMessage(fqname, desiredValue)))
  ELSE Ret(currentValue = desiredValue, errs)

\* checkBoolean without its type check
checkBoolean_Untyped(currentValue, desiredValue, errs, fqname) ==
  Ret(currentValue # desiredValue, errs)

checkBoolean(currentValue, desiredValue, errs, fqname) ==
  IF TypeOf(desiredValue) # "boolean"
  THEN Ret(FALSE, Append(errs, invalidSettingMessage(fqname, desiredValue)))
  ELSE Ret(currentValue # desiredValue, errs)

checkNumber(min, max, maxIsInfinity, currentValue, desiredValue, errs, fqname) ==
  IF TypeOf(desiredValue) # "number"
  THEN Ret(FALSE, Append(errs, invalidSettingMessage(fqname, desiredValue)))
  ELSE IF desiredValue.n < min \/ (~maxIsInfinity /\ desiredValue.n > max)
  THEN Ret(FALSE, Append(errs, invalidSettingMessage(fqname, desiredValue)))
  ELSE Ret(currentValue # desiredValue, errs)

checkString(currentValue, desiredValue, errs, fqname) ==
  IF TypeOf(desiredValue) # "string"
  THEN Ret(FALSE, Append(errs, invalidSettingMessage(fqname, desiredValue)))
  ELSE Ret(currentValue # desiredValue, errs)

checkContainerEngine(currentValue, desiredEngine, errs, fqname) ==
  IF desiredEngine \notin {Str(S_containerd), Str(S_moby)}
  THEN Ret(FALSE, Append(errs,
         Err("Invalid value for ${fqname}: <${desiredEngine}>; must be 'containerd', 'docker', or 'moby'",
             fqname, desiredEngine)))
  ELSE Ret(currentValue # desiredEngine, errs)

checkKubernetesVersion(versions, currentValue, desiredVersion, errs, fqname) ==
  IF ~(\E i \in 1..Len(versions) : Str(versions[i]) = desiredVersion)
  THEN Ret(FALSE, Append(errs,
         Err("Kubernetes version \"${desiredVersion}\" not found.", <<>>, desiredVersion)))
  ELSE Ret(currentValue # desiredVersion, errs)

checkUnchanged(currentValue, desiredValue, errs, fqname) ==
  IF currentValue # desiredValue
  THEN Ret(FALSE, Append(errs, notSupported(fqname)))
  ELSE Ret(FALSE, errs)

checkPathManagementStrategy(currentValue, desiredValue, errs, fqname) ==
  IF desiredValue \notin PathManagementStrategyValues
  THEN Ret(FALSE, Append(errs,
         Err("${fqname}: \"${desiredValue}\" is not a valid strategy", fqname, desiredValue)))
  ELSE IF desiredValue = PathManagementStrategy.NotSet
  THEN Ret(FALSE, Append(errs,
         Err("${fqname}: \"${desiredValue}\" is not a valid strategy", fqname, desiredValue)))
  ELSE IF desiredValue # currentValue THEN Ret(TRUE, errs)
  ELSE Ret(FALSE, errs)

----------------------------------------------------------------------------
(* The wildcard map: kubernetes.WSLIntegrations *)

\* UTF-16 code units of the characters that occur in map names and values
Code(c) ==
  CASE c = "," -> 44 [] c = "a" -> 97 [] c = "b" -> 98 [] c = "e" -> 101
    [] c = "f" -> 102 [] c = "l" -> 108 [] c = "r" -> 114 [] c = "s" -> 115
    [] c = "t" -> 116 [] c = "u" -> 117

\* x < y on strings: code unit by code unit, a proper prefix being smaller
RECURSIVE StrLess(_, _)
StrLess(x, y) ==
  IF y = <<>> THEN FALSE
  ELSE IF x = <<>> THEN TRUE
  ELSE IF Head(x) = Head(y) THEN StrLess(Tail(x), Tail(y))
  ELSE Code(Head(x)) < Code(Head(y))

\* String(v) of a map value (a string or a boolean)
ToStr(v) ==
  CASE v.t = "string" -> v.s
    [] v.t = "boolean" -> IF v.b THEN S_true ELSE S_false
    [] v.t = "null" -> <<>>

\* String([k, v]): the elements joined by a comma
EntryToString(e) == e.k \o <<",">> \o ToStr(e.v)

\* The default comparison of Array.prototype.sort: the elements as strings
SortBefore(x, y) == StrLess(EntryToString(x), EntryToString(y))

\* Array.prototype.sort() is stable: e goes behind every element that does
\* not sort after it.
RECURSIVE InsertSorted(_, _)
InsertSorted(sorted, e) ==
  IF sorted = <<>> THEN <<e>>
  ELSE IF SortBefore(e, Head(sorted)) THEN <<e>> \o sorted
  ELSE <<Head(sorted)>> \o InsertSorted(Tail(sorted), e)

RECURSIVE SortEntries(_)
SortEntries(entries) ==
  IF entries = <<>> THEN <<>>
  ELSE InsertSorted(SortEntries(SubSeq(entries, 1, Len(entries) - 1)),
                    entries[Len(entries)])

\* JSON.stringify(Object.entries(value).sort()).  The text JSON.stringify
\* writes for an array of [name, string-or-boolean] pairs determines the
\* array, so the array stands for its text.  Object.entries throws on null.
stableSerializeWSLIntegrations(value) ==
  IF value.t \in {"null", "undefined"}
  THEN [thrown |-> TRUE, json |-> <<>>]
  ELSE [thrown |-> FALSE, json |-> SortEntries(value.kv)]

checkWSLIntegrations(currentValue, desiredValue, errs, fqname) ==
  IF TypeOf(desiredValue) # "object"
  THEN Ret(FALSE, Append(errs,
         Err("Proposed field ${fqname} should be an object, got <${desiredValue}>.",
             fqname, desiredValue)))
  ELSE LET c == stableSerializeWSLIntegrations(currentValue)
           d == stableSerializeWSLIntegrations(desiredValue)
       IN IF c.thrown \/ d.thrown
          THEN Ret(FALSE, Append(errs,
                 Err("JSON-parsing error checking field ${fqname}: ${err}", fqname, Undefined)))
          ELSE IF c.json # d.json THEN Ret(FALSE, Append(errs, notSupported(fqname)))
          ELSE Ret(FALSE, errs)

----------------------------------------------------------------------------
(* The validation walk *)

\* allowedSettings[k].call(this, currentValue, desiredValue, errors, fqname)
CallValidator(node, versions, currentValue, desiredValue, errs, fqname) ==
  CASE node.fn = "checkBoolean" -> checkBoolean(currentValue, desiredValue, errs, fqname)
    [] node.fn = "checkNumber" ->
         checkNumber(node.min, node.max, node.maxIsInfinity,
                     currentValue, desiredValue, errs, fqname)
    [] node.fn = "checkString" -> checkString(currentValue, desiredValue, errs, fqname)
    [] node.fn = "checkContainerEngine" ->
         checkContainerEngine(currentValue, desiredValue, errs, fqname)
    [] node.fn = "checkKubernetesVersion" ->
         checkKubernetesVersion(versions, currentValue, desiredValue, errs, fqname)
    [] node.fn = "checkUnchanged" -> checkUnchanged(currentValue, desiredValue, errs, fqname)
    [] node.fn = "checkWSLIntegrations" ->
         checkWSLIntegrations(currentValue, desiredValue, errs, fqname)
    [] node.fn = "checkPathManagementStrategy" ->
         checkPathManagementStrategy(currentValue, desiredValue, errs, fqname)
       \* Object.prototype.toString returns "[object Object]", which is truthy
    [] node.fn = "toString" -> Ret(TRUE, errs)
       \* Object.prototype.__defineGetter__(currentValue, desiredValue): the
       \* desired value is a scalar here, so it is not callable
    [] node.fn = "__defineGetter__" -> Throw(errs)

\* prefix ? `${prefix}.${k}` : k, as the sequence of the names joined by dots
Fqname(prefix, k) == IF prefix # <<>> THEN Append(prefix, k) ELSE <<k>>

\* the state of one walk: the accumulated flag, the shared error list, the
\* leaf validators called so far with what each returned, and whether an
\* exception is propagating
Walk(changeNeeded, errs, log, thr) ==
  [changeNeeded |-> changeNeeded, errors |-> errs, calls |-> log, thrown |-> thr]

\* changeNeeded = f(...) || changeNeeded
OrChange(returned, changeNeeded) == returned \/ changeNeeded

RECURSIVE checkProposedSettings(_, _, _, _, _, _, _)
RECURSIVE CheckKeysFrom(_, _, _, _, _, _, _)

\* the body of the for..in loop for the i-th key of newSettings
CheckKey(allowed, versions, current, new, prefix, i, w) ==
  LET k == new.kv[i].k
      v == new.kv[i].v
      fqname == Fqname(prefix, k)
      node == TableGet(allowed, k)
  IN IF ~In(k, allowed) THEN w
     ELSE IF TypeOf(node) = "object"
     THEN IF TypeOf(v) = "object"
          THEN IF current.t \in {"null", "undefined"}
               THEN Walk(w.changeNeeded, w.errors, w.calls, TRUE)
               ELSE LET r == checkProposedSettings(node, versions, Get(current, k), v,
                                                   w.errors, fqname, w.calls)
                    IN Walk(OrChange(r.changeNeeded, w.changeNeeded), r.errors,
                            r.calls, r.thrown)
          ELSE Walk(w.changeNeeded,
                    Append(w.errors,
                      Err("Setting ${fqname} should wrap an inner object, but got <${newSettings[k]}>.",
                          fqname, v)),
                    w.calls, FALSE)
     ELSE IF TypeOf(v) = "object"
     THEN IF node.fn = "checkWSLIntegrations"
          THEN IF current.t \in {"null", "undefined"}
               THEN Walk(w.changeNeeded, w.errors, w.calls, TRUE)
               ELSE LET r == checkWSLIntegrations(Get(current, k), v, w.errors, fqname)
                    IN Walk(OrChange(r.changed, w.changeNeeded), r.errors,
                            Append(w.calls, [fqname |-> fqname, fn |-> node.fn,
                                             changed |-> r.changed]),
                            r.thrown)
          ELSE Walk(w.changeNeeded,
                    Append(w.errors,
                      Err("Setting ${fqname} should be a simple value, but got <${JSON.stringify(newSettings[k])}>.",
                          fqname, v)),
                    w.calls, FALSE)
     ELSE IF current.t \in {"null", "undefined"}
     THEN Walk(w.changeNeeded, w.errors, w.calls, TRUE)
     ELSE LET r == CallValidator(node, versions, Get(current, k), v, w.errors, fqname)
          IN IF r.thrown THEN Walk(w.changeNeeded, r.errors, w.calls, TRUE)
             ELSE Walk(OrChange(r.changed, w.changeNeeded), r.errors,
                       Append(w.calls, [fqname |-> fqname, fn |-> node.fn,
                                        changed |-> r.changed]),
                       FALSE)

CheckKeysFrom(allowed, versions, current, new, prefix, i, w) ==
  IF w.thrown \/ i > Len(new.kv) THEN w
  ELSE CheckKeysFrom(allowed, versions, current, new, prefix, i + 1,
                     CheckKey(allowed, versions, current, new, prefix, i, w))

\* for..in visits the own names of an object and nothing of null; the names
\* it visits of a string are array indices, which no table holds
checkProposedSettings(allowed, versions, current, new, errs, prefix, log) ==
  CheckKeysFrom(allowed, versions, current, new, prefix, 1,
                Walk(FALSE, errs, log, FALSE))

----------------------------------------------------------------------------
(* Canonicalization of synonyms *)

IsDigit(c) == c \in {"0", "1", "2", "3", "4", "5", "6", "7", "8", "9"}

\* the position behind the longest run of digits that starts at position i
RECURSIVE DigitsEnd(_, _)
DigitsEnd(str, i) ==
  IF i <= Len(str) /\ IsDigit(str[i]) THEN DigitsEnd(str, i + 1) ELSE i

CharAt(str, i, c) == i <= Len(str) /\ str[i] = c

\* /^(v?)(\d+\.\d+\.\d+)((?:\+k3s\d+)?)$/.exec(str): whether it matches and
\* the three groups.  Every repetition is followed by a character that is
\* not a digit, so the greedy match is the only one.
MatchVersion(str) ==
  LET p0 == IF CharAt(str, 1, "v") THEN 2 ELSE 1
      p1 == DigitsEnd(str, p0)
      p2 == DigitsEnd(str, p1 + 1)
      p3 == DigitsEnd(str, p2 + 1)
      p4 == DigitsEnd(str, p3 + 4)
      core == p1 > p0 /\ CharAt(str, p1, ".") /\ p2 > p1 + 1
              /\ CharAt(str, p2, ".") /\ p3 > p2 + 1
      suffix == CharAt(str, p3, "+") /\ CharAt(str, p3 + 1, "k")
                /\ CharAt(str, p3 + 2, "3") /\ CharAt(str, p3 + 3, "s")
                /\ p4 > p3 + 4 /\ p4 = Len(str) + 1
  IN IF core /\ p3 = Len(str) + 1
     THEN [matched |-> TRUE, m1 |-> SubSeq(str, 1, p0 - 1),
           m2 |-> SubSeq(str, p0, p3 - 1), m3 |-> <<>>]
     ELSE IF core /\ suffix
     THEN [matched |-> TRUE, m1 |-> SubSeq(str, 1, p0 - 1),
           m2 |-> SubSeq(str, p0, p3 - 1), m3 |-> SubSeq(str, p3, Len(str))]
     ELSE [matched |-> FALSE, m1 |-> <<>>, m2 |-> <<>>, m3 |-> <<>>]

\* a canonicalizer's effect on newSettings[index]: the value it leaves there
\* and whether it threw
Left(v) == [v |-> v, thrown |-> FALSE]
Threw(v) == [v |-> v, thrown |-> TRUE]

\* exec() converts its argument to a string first; of the modelled values
\* only a string can match (a number, a boolean, null and "[object Object]"
\* have no two dots)
\* canonicalizeKubernetesVersion taking off the prefix or else the suffix
canonicalizeKubernetesVersion_OneAtATime(desiredValue) ==
  IF ToStringThrows(desiredValue) THEN Threw(desiredValue)
  ELSE IF desiredValue.t # "string" THEN Left(desiredValue)
  ELSE LET m == MatchVersion(desiredValue.s)
       IN IF m.matched /\ m.m1 # <<>> THEN Left(Str(m.m2 \o m.m3))
          ELSE IF m.matched /\ m.m3 # <<>> THEN Left(Str(m.m2))
          ELSE Left(desiredValue)

canonicalizeKubernetesVersion(desiredValue) ==
  IF ToStringThrows(desiredValue) THEN Threw(desiredValue)
  ELSE IF desiredValue.t # "string" THEN Left(desiredValue)
  ELSE LET m == MatchVersion(desiredValue.s)
       IN IF m.matched /\ (m.m1 # <<>> \/ m.m3 # <<>>) THEN Left(Str(m.m2))
          ELSE Left(desiredValue)

canonicalizeContainerEngine(desiredValue) ==
  IF desiredValue = Str(S_docker) THEN Left(Str(S_moby)) ELSE Left(desiredValue)

canonicalizeBool(desiredValue) ==
  IF desiredValue = Str(S_true) THEN Left(Bool(TRUE))
  ELSE IF desiredValue = Str(S_false) THEN Left(Bool(FALSE))
  ELSE Left(desiredValue)

\* synonymsTable[k].call(this, newSettings, k)
CallCanonicalizer(node, desiredValue) ==
  CASE node.fn = "canonicalizeKubernetesVersion" -> canonicalizeKubernetesVersion(desiredValue)
    [] node.fn = "canonicalizeContainerEngine" -> canonicalizeContainerEngine(desiredValue)
    [] node.fn = "canonicalizeBool" -> canonicalizeBool(desiredValue)
       \* Object.prototype.toString takes no argument and changes nothing
    [] node.fn = "toString" -> Left(desiredValue)
       \* Object.prototype.__defineGetter__(newSettings, k): k is a string,
       \* which is not callable
    [] node.fn = "__defineGetter__" -> Threw(desiredValue)

\* o[k] = v for an own property k of o, which keeps its place
SetOwn(o, k, v) ==
  Obj([i \in 1..Len(o.kv) |-> IF o.kv[i].k = k THEN P(k, v) ELSE o.kv[i]])

RECURSIVE canonicalizeSettings(_, _, _)
RECURSIVE CanonicalizeKeysFrom(_, _, _, _)

\* the body of the for..in loop for the i-th key of newSettings; c.v is
\* newSettings as changed so far
CanonicalizeKey(table, prefix, i, c) ==
  LET k == c.v.kv[i].k
      v == c.v.kv[i].v
      fqname == Fqname(prefix, k)
      node == TableGet(table, k)
  IN IF ~In(k, table) THEN c
     ELSE LET r == IF TypeOf(node) = "object"
                   THEN canonicalizeSettings(node, v, fqname)
                   ELSE CallCanonicalizer(node, v)
          IN [v |-> SetOwn(c.v, k, r.v), thrown |-> r.thrown]

CanonicalizeKeysFrom(table, prefix, i, c) ==
  IF c.thrown \/ i > Len(c.v.kv) THEN c
  ELSE CanonicalizeKeysFrom(table, prefix, i + 1, CanonicalizeKey(table, prefix, i, c))

\* newSettings after the walk (a scalar or null where a subtree was expected
\* has no name to visit and stays as it is) and whether the walk threw
canonicalizeSettings(table, new, prefix) ==
  IF new.t # "object" THEN Left(new)
  ELSE CanonicalizeKeysFrom(table, prefix, 1, Left(new))

\* this.synonymsTable ||= {...}; this.canonicalizeSettings(...)
canonicalizeSynonyms(table, new) == canonicalizeSettings(table, new, <<>>)

\* the returned flag without the test of the error list
OkOf_IgnoringErrors(changed, errs) == changed

\* return [needToUpdate && errors.length === 0, errors]
OkOf(changed, errs) == changed /\ Len(errs) = 0

\* what a call came to, as the model records it
CallResult(new, changed, errs, log, okay, thr) ==
  [newSettings |-> new, needToUpdate |-> changed, errors |-> errs, calls |-> log,
   ok |-> okay, thrown |-> thr]
WalkResult(new, w) ==
  CallResult(new, w.changeNeeded, w.errors, w.calls, FALSE, w.thrown)
ValidatorResult(new, r) == CallResult(new, r.changed, r.errors, <<>>, FALSE, r.thrown)
CanonicalizeResult(c) == CallResult(c.v, FALSE, <<>>, <<>>, FALSE, c.thrown)

\* the tail of validateSettings, after canonicalizeSynonyms returned
ValidateCanonical(allowed, versions, current, new) ==
  LET w == checkProposedSettings(allowed, versions, current, new, <<>>, <<>>, <<>>)
  IN CallResult(new, w.changeNeeded, w.errors, w.calls,
                IF w.thrown THEN FALSE ELSE OkOf(w.changeNeeded, w.errors), w.thrown)

\* validateSettings walking the proposed tree before it is canonicalized
validateSettings_WalkFirst(allowed, synonyms, versions, current, new) ==
  LET c == canonicalizeSynonyms(synonyms, new)
  IN IF c.thrown THEN CanonicalizeResult(c)
     ELSE [ValidateCanonical(allowed, versions, current, new) EXCEPT !.newSettings = c.v]

\* validateSettings(currentSettings, newSettings)
validateSettings(allowed, synonyms, versions, current, new) ==
  LET c == canonicalizeSynonyms(synonyms, new)
  IN IF c.thrown THEN CanonicalizeResult(c)
     ELSE ValidateCanonical(allowed, versions, current, c.v)

----------------------------------------------------------------------------
(* The calls the model makes: current settings, proposed trees, maps *)

S_empty == <<>>
S_1_2_3 == <<"1", ".", "2", ".", "3">>
S_1_2_4 == <<"1", ".", "2", ".", "4">>
S_v1_2_3 == <<"v">> \o S_1_2_3
S_1_2_3_k3s1 == S_1_2_3 \o <<"+", "k", "3", "s", "1">>
S_v1_2_3_k3s1 == <<"v">> \o S_1_2_3_k3s1
S_1_2_4_k3s1 == S_1_2_4 \o <<"+", "k", "3", "s", "1">>
S_k8s_io == <<"k", "8", "s", ".", "i", "o">>
S_a == <<"a">>
S_a_a == <<"a", ",", "a">>

\* a complete settings tree
Settings(k8sVersion, port, engine, enabled, wsl, telemetry, strategy) ==
  Obj(<<
    P("version", Num(4)),
    P("kubernetes", Obj(<<
      P("version", Str(k8sVersion)),
      P("memoryInGB", Num(2)),
      P("numberCPUs", Num(2)),
      P("port", Num(port)),
      P("containerEngine", Str(engine)),
      P("checkForExistingKimBuilder", Bool(FALSE)),
      P("enabled", Bool(enabled)),
      P("WSLIntegrations", Obj(wsl)),
      P("options", Obj(<<P("traefik", Bool(TRUE)), P("flannel", Bool(enabled))>>)),
      P("suppressSudo", Bool(FALSE)),
      P("experimentalHostResolver", Bool(FALSE))>>)),
    P("portForwarding", Obj(<<P("includeKubernetesServices", Bool(FALSE))>>)),
    P("images", Obj(<<P("showAll", Bool(TRUE)), P("namespace", Str(S_k8s_io))>>)),
    P("telemetry", Bool(telemetry)),
    P("updater", Bool(FALSE)),
    P("debug", Bool(FALSE)),
    P("pathManagementStrategy", strategy)>>)

\* the settings of a fresh installation (no Kubernetes version chosen, the
\* path strategy not set) and settings a user has made
CurrentTrees ==
  {Settings(S_empty, 6443, S_containerd, TRUE, <<>>, TRUE, PathManagementStrategy.NotSet),
   Settings(S_1_2_3, 6443, S_moby, FALSE, <<P(S_a, Bool(TRUE))>>, FALSE,
            PathManagementStrategy.Manual)}

\* the lists of known versions the host assigns
VersionLists == {<<>>, <<S_1_2_3, S_1_2_4>>}

\* values tried at every position of the verifier tree
ScalarValues ==
  {Bool(TRUE), Bool(FALSE), Num(0), Num(2), Num(4), Num(6443), Num(65536),
   Str(S_true), Str(S_false), Str(S_moby), Str(S_docker), Str(S_containerd),
   Str(S_empty), Str(S_1_2_3), Str(S_v1_2_3), Str(S_1_2_3_k3s1), Str(S_v1_2_3_k3s1),
   Str(S_1_2_4), Str(S_k8s_io), PathManagementStrategy.NotSet,
   PathManagementStrategy.Manual, PathManagementStrategy.RcFiles}
TestValues == ScalarValues \cup {Null, Obj(<<>>)}

\* the paths of a table: every position, interior or leaf
RECURSIVE PathsOf(_, _)
PathsOf(table, prefix) ==
  UNION {
    {Append(prefix, table.kv[i].k)} \cup
      (IF table.kv[i].v.t = "object"
       THEN PathsOf(table.kv[i].v, Append(prefix, table.kv[i].k)) ELSE {})
    : i \in 1..Len(table.kv)}
SchemaPaths == PathsOf(AllowedSettingsTable, <<>>)

\* the table entry at a path
RECURSIVE NodeAt(_, _)
NodeAt(table, path) ==
  IF Len(path) = 1 THEN GetOwn(table, path[1])
  ELSE NodeAt(GetOwn(table, path[1]), Tail(path))

\* the value of a tree at a path that it holds
RECURSIVE ValueAt(_, _)
ValueAt(tree, path) ==
  IF Len(path) = 1 THEN GetOwn(tree, path[1])
  ELSE ValueAt(GetOwn(tree, path[1]), Tail(path))

\* whether tree.path = value can be added to the tree by a client that
\* creates the objects on the way as it needs them
RECURSIVE CanInsert(_, _)
CanInsert(tree, path) ==
  IF ~HasOwn(tree, path[1]) THEN TRUE
  ELSE Len(path) > 1 /\ GetOwn(tree, path[1]).t = "object"
       /\ CanInsert(GetOwn(tree, path[1]), Tail(path))

RECURSIVE Insert(_, _, _)
Insert(tree, path, value) ==
  IF Len(path) = 1 THEN Obj(Append(tree.kv, P(path[1], value)))
  ELSE IF HasOwn(tree, path[1])
  THEN SetOwn(tree, path[1], Insert(GetOwn(tree, path[1]), Tail(path), value))
  ELSE Obj(Append(tree.kv, P(path[1], Insert(Obj(<<>>), Tail(path), value))))

\* one setting at one position of the verifier tree
SinglePathTrees ==
  {Insert(Obj(<<>>), path, v) : path \in SchemaPaths, v \in TestValues}

Setting(path, value) == [path |-> path, value |-> value]

\* the settings that proposals of several keys are put together from: a
\* change, violations of every kind, synonyms, names the verifier does not
\* have, names that Object.prototype has
CoreSettings ==
  {Setting(<<"telemetry">>, Bool(FALSE)),
   Setting(<<"telemetry">>, Str(S_true)),
   Setting(<<"version">>, Num(5)),
   Setting(<<"pathManagementStrategy">>, PathManagementStrategy.Manual),
   Setting(<<"kubernetes", "version">>, Str(S_v1_2_3)),
   Setting(<<"kubernetes", "version">>, Str(S_1_2_4_k3s1)),
   Setting(<<"kubernetes", "containerEngine">>, Str(S_docker)),
   Setting(<<"kubernetes", "enabled">>, Str(S_false)),
   Setting(<<"kubernetes", "port">>, Num(65536)),
   Setting(<<"kubernetes", "options", "flannel">>, Str(S_false)),
   Setting(<<"kubernetes", "WSLIntegrations">>, Null),
   Setting(<<"kubernetes">>, Null),
   Setting(<<"images">>, Num(2)),
   Setting(<<"foo">>, Num(2)),
   Setting(<<"kubernetes", "bar">>, Str(S_moby)),
   Setting(<<"kubernetes", "version", "toString">>, Num(2)),
   Setting(<<"toString">>, Num(2)),
   Setting(<<"__defineGetter__">>, Num(2))}

\* the most settings a proposal is put together from
MaxSettings == 2

RECURSIVE TreesUpTo(_)
TreesUpTo(n) ==
  IF n = 0 THEN {Obj(<<>>)}
  ELSE LET smaller == TreesUpTo(n - 1)
       IN smaller \cup
          {Insert(tree, e.path, e.value) :
             <<tree, e>> \in {x \in smaller \X CoreSettings : CanInsert(x[1], x[2].path)}}

ProposedTrees == SinglePathTrees \cup TreesUpTo(MaxSettings)

\* names and values of the integrations maps; a name may hold a comma
WSLNames == {S_a, S_a_a}
WSLValues == {Str(S_a), Str(S_a_a), Bool(TRUE)}
WSLEntries == {P(k, v) : k \in WSLNames, v \in WSLValues}
WSLMaps ==
  {Obj(<<>>)} \cup {Obj(<<e>>) : e \in WSLEntries}
  \cup {Obj(<<x[1], x[2]>>) : x \in {y \in WSLEntries \X WSLEntries : y[1].k # y[2].k}}

----------------------------------------------------------------------------
(* The validator object and the calls made on it *)

NoResult == CallResult(Undefined, FALSE, <<>>, <<>>, FALSE, FALSE)

Init ==
  /\ k8sVersions = <<>>
  /\ allowedSettings = NoTable
  /\ synonymsTable = NoTable
  /\ pc = "idle"
  /\ op = "none"
  /\ currentSettings = Undefined
  /\ proposed = Undefined
  /\ result = NoResult

\* table ||= {...}
OrAssign(table, built) == IF table.t = "null" THEN built ELSE table

\* the host assigns the list of known versions
SetK8sVersions ==
  /\ pc = "idle"
  /\ \E versions \in VersionLists : k8sVersions' = versions
  /\ UNCHANGED <<allowedSettings, synonymsTable, pc, op, currentSettings, proposed,
                 result>>

ValidateSettings ==
  /\ pc = "idle"
  /\ allowedSettings' = OrAssign(allowedSettings, AllowedSettingsTable)
  /\ synonymsTable' = OrAssign(synonymsTable, SynonymsTable)
  /\ \E current \in CurrentTrees, new \in ProposedTrees :
       /\ currentSettings' = current
       /\ proposed' = new
       /\ result' = validateSettings(allowedSettings', synonymsTable', k8sVersions,
                                     current, new)
  /\ op' = "validateSettings"
  /\ pc' = "returned"
  /\ UNCHANGED k8sVersions

CanonicalizeSynonyms ==
  /\ pc = "idle"
  /\ synonymsTable' = OrAssign(synonymsTable, SynonymsTable)
  /\ \E new \in ProposedTrees :
       /\ proposed' = new
       /\ result' = CanonicalizeResult(canonicalizeSynonyms(synonymsTable', new))
  /\ op' = "canonicalizeSynonyms"
  /\ currentSettings' = Undefined
  /\ pc' = "returned"
  /\ UNCHANGED <<k8sVersions, allowedSettings>>

\* the walk on its own, on the verifier that validateSettings built
CheckProposedSettings ==
  /\ pc = "idle"
  /\ allowedSettings.t # "null"
  /\ \E current \in CurrentTrees, new \in ProposedTrees :
       /\ currentSettings' = current
       /\ proposed' = new
       /\ result' = WalkResult(new, checkProposedSettings(allowedSettings, k8sVersions,
                                                         current, new, <<>>, <<>>, <<>>))
  /\ op' = "checkProposedSettings"
  /\ pc' = "returned"
  /\ UNCHANGED <<k8sVersions, allowedSettings, synonymsTable>>

\* the wildcard-map validator on its own
CheckWSLIntegrations ==
  /\ pc = "idle"
  /\ \E current \in WSLMaps, desired \in WSLMaps :
       /\ currentSettings' = current
       /\ proposed' = desired
       /\ result' = ValidatorResult(desired,
                      checkWSLIntegrations(current, desired, <<>>,
                                           <<"kubernetes", "WSLIntegrations">>))
  /\ op' = "checkWSLIntegrations"
  /\ pc' = "returned"
  /\ UNCHANGED <<k8sVersions, allowedSettings, synonymsTable>>

\* the caller takes the result
Return ==
  /\ pc = "returned"
  /\ pc' = "idle"
  /\ op' = "none"
  /\ currentSettings' = Undefined
  /\ proposed' = Undefined
  /\ result' = NoResult
  /\ UNCHANGED <<k8sVersions, allowedSettings, synonymsTable>>

Next ==
  \/ SetK8sVersions
  \/ ValidateSettings
  \/ CanonicalizeSynonyms
  \/ CheckProposedSettings
  \/ CheckWSLIntegrations
  \/ Return

Spec == Init /\ [][Next]_vars

----------------------------------------------------------------------------
(* Vocabulary of the properties *)

Returned(method) == pc = "returned" /\ op = method

RECURSIVE HoldsPath(_, _)
HoldsPath(tree, path) ==
  /\ tree.t = "object"
  /\ HasOwn(tree, path[1])
  /\ (Len(path) > 1 => HoldsPath(GetOwn(tree, path[1]), Tail(path)))

IsPrefix(p, q) == Len(p) <= Len(q) /\ SubSeq(q, 1, Len(p)) = p

InteriorPaths == {p \in SchemaPaths : NodeAt(AllowedSettingsTable, p).t = "object"}
ScalarLeafPaths ==
  {p \in SchemaPaths : /\ NodeAt(AllowedSettingsTable, p).t = "function"
                       /\ NodeAt(AllowedSettingsTable, p).fn # "checkWSLIntegrations"}

\* the proposal that sets the one field at path to v
OneSetting(path, v) == Insert(Obj(<<>>), path, v)

AnyLeafChanged == \E i \in 1..Len(result.calls) : result.calls[i].changed

InvalidValueMessages ==
  {"Invalid value for ${fqname}: <${desiredValue}>",
   "Invalid value for ${fqname}: <${desiredEngine}>; must be 'containerd', 'docker', or 'moby'"}
ShouldWrapMessage ==
  "Setting ${fqname} should wrap an inner object, but got <${newSettings[k]}>."
SimpleValueMessage ==
  "Setting ${fqname} should be a simple value, but got <${JSON.stringify(newSettings[k])}>."

\* a name of Object.prototype anywhere in a tree
RECURSIVE HasInheritedName(_)
HasInheritedName(tree) ==
  \E i \in 1..Len(tree.kv) :
    \/ tree.kv[i].k \in ObjectPrototypeNames
    \/ HasInheritedName(tree.kv[i].v)

\* the values a field's validator lets pass
Accepted(node, versions, v) ==
  CASE node.fn = "checkKubernetesVersion" -> \E i \in 1..Len(versions) : versions[i] = v.s
    [] node.fn = "checkPathManagementStrategy" -> v # PathManagementStrategy.NotSet
    [] node.fn = "checkNumber" -> node.min <= v.n /\ (node.maxIsInfinity \/ v.n <= node.max)
    [] OTHER -> TRUE

----------------------------------------------------------------------------
(* C1 *)

----------------------------------------------------------------------------
(* C2 *)

\* The violations of a proposed tree as sections 4.1, 4.2 and 7 of the
\* specification define them, at the positions the verifier knows, in the
\* order of the proposed tree's keys.
SameEntries(m1, m2) ==
  {m1.kv[i] : i \in 1..Len(m1.kv)} = {m2.kv[i] : i \in 1..Len(m2.kv)}

Admissible(node, versions, current, v) ==
  CASE node.fn = "checkBoolean" -> v.t = "boolean"
    [] node.fn = "checkNumber" ->
         v.t = "number" /\ node.min <= v.n /\ (node.maxIsInfinity \/ v.n <= node.max)
    [] node.fn = "checkString" -> v.t = "string"
    [] node.fn = "checkContainerEngine" -> v \in {Str(S_containerd), Str(S_moby)}
    [] node.fn = "checkKubernetesVersion" ->
         v.t = "string" /\ \E i \in 1..Len(versions) : versions[i] = v.s
    [] node.fn = "checkUnchanged" -> v = current
    [] node.fn = "checkPathManagementStrategy" ->
         v \in PathManagementStrategyValues \ {PathManagementStrategy.NotSet}
    [] node.fn = "checkWSLIntegrations" -> v.t = "object" /\ SameEntries(v, current)

RECURSIVE ViolatingPositions(_, _, _, _, _)
ViolatingPositionsFrom(table, versions, current, new, prefix, i) ==
  LET k == new.kv[i].k
      v == new.kv[i].v
  IN IF ~HasOwn(table, k) THEN <<>>
     ELSE IF GetOwn(table, k).t = "object"
     THEN IF v.t = "object"
          THEN ViolatingPositions(GetOwn(table, k), versions, GetOwn(current, k), v,
                                  Append(prefix, k))
          ELSE <<Append(prefix, k)>>
     ELSE IF Admissible(GetOwn(table, k), versions, GetOwn(current, k), v) THEN <<>>
     ELSE <<Append(prefix, k)>>

RECURSIVE ConcatUpTo(_, _, _, _, _, _)
ConcatUpTo(table, versions, current, new, prefix, n) ==
  IF n = 0 THEN <<>>
  ELSE ConcatUpTo(table, versions, current, new, prefix, n - 1)
       \o ViolatingPositionsFrom(table, versions, current, new, prefix, n)

ViolatingPositions(table, versions, current, new, prefix) ==
  ConcatUpTo(table, versions, current, new, prefix, Len(new.kv))

\* an error is at a position when it names it; the message of the version
\* check names no position
ErrorIsAt(e, path) ==
  \/ e.fqname = path
  \/ /\ e.fqname = <<>>
     /\ NodeAt(AllowedSettingsTable, path).fn = "checkKubernetesVersion"

\* C2: the walk reports one error for each violating position of the
\* proposed tree, in the order of its keys, whatever was reported before.
C2_OneErrorPerViolation ==
  (Returned("checkProposedSettings") /\ ~result.thrown /\ ~HasInheritedName(proposed)) =>
    LET expected == ViolatingPositions(AllowedSettingsTable, k8sVersions,
                                       currentSettings, proposed, <<>>)
    IN /\ Len(result.errors) = Len(expected)
       /\ \A i \in 1..Len(expected) : ErrorIsAt(result.errors[i], expected[i])

----------------------------------------------------------------------------
(* C3 *)

\* the tree without the keys that are no field of the verifier at their level
RECURSIVE WithoutUnknownKeys(_, _)
KnownKeys(table, tree) == {i \in 1..Len(tree.kv) : HasOwn(table, tree.kv[i].k)}
RECURSIVE KeepKnown(_, _, _)
KeepKnown(table, tree, n) ==
  IF n = 0 THEN <<>>
  ELSE IF n \in KnownKeys(table, tree)
       THEN Append(KeepKnown(table, tree, n - 1),
                   P(tree.kv[n].k,
                     WithoutUnknownKeys(GetOwn(table, tree.kv[n].k), tree.kv[n].v)))
       ELSE KeepKnown(table, tree, n - 1)
WithoutUnknownKeys(table, tree) ==
  IF table.t # "object" \/ tree.t # "object" THEN tree
  ELSE Obj(KeepKnown(table, tree, Len(tree.kv)))

\* C3: validateSettings gives a proposed tree the result it gives the tree
\* without its unknown keys: no error more, the same flag, the same ok.
C3_UnknownKeysIgnored ==
  Returned("validateSettings") =>
    LET r == validateSettings(allowedSettings, synonymsTable, k8sVersions,
                              currentSettings,
                              WithoutUnknownKeys(AllowedSettingsTable, proposed))
    IN /\ result.thrown = r.thrown
       /\ result.errors = r.errors
       /\ result.needToUpdate = r.needToUpdate
       /\ result.ok = r.ok

----------------------------------------------------------------------------
(* C4 *)

\* C4 as stated: proposing a scalar field's current value appends no error
\* and reports no change.
C4_Original ==
  \A path \in ScalarLeafPaths :
    (Returned("checkProposedSettings")
       /\ proposed = OneSetting(path, ValueAt(currentSettings, path))) =>
      result.errors = <<>> /\ ~result.needToUpdate

\* C4 amended: proposing a scalar field's current value appends no error and
\* reports no change when the field's validator accepts the value: a version
\* of the known-versions list, a strategy other than NotSet, a number of the
\* field's range.
C4_CurrentValueIsNoChange ==
  \A path \in ScalarLeafPaths :
    (Returned("checkProposedSettings")
       /\ proposed = OneSetting(path, ValueAt(currentSettings, path))
       /\ Accepted(NodeAt(AllowedSettingsTable, path), k8sVersions,
                   ValueAt(currentSettings, path))) =>
      result.errors = <<>> /\ ~result.needToUpdate /\ ~result.thrown

C4_Witness ==
  /\ Returned("checkProposedSettings")
  /\ proposed = OneSetting(<<"kubernetes", "version">>,
                           ValueAt(currentSettings, <<"kubernetes", "version">>))
  /\ result.errors = <<>>
  /\ Len(result.calls) = 1

----------------------------------------------------------------------------
(* C5 *)

\* a value that is not of the field's type; an immutable field has the type
\* of its current value
WrongType(node, current, v) ==
  CASE node.fn = "checkBoolean" -> v.t # "boolean"
    [] node.fn = "checkNumber" -> v.t # "number"
    [] node.fn = "checkUnchanged" -> v.t # current.t
    [] OTHER -> v.t # "string"

\* C5 as stated: a value of the wrong type at a scalar field appends exactly
\* one error, of the form "Invalid value for <fqname>: ...", and reports no
\* change.
C5_Original ==
  \A path \in ScalarLeafPaths :
    (Returned("checkProposedSettings")
       /\ HoldsPath(proposed, path)
       /\ proposed = OneSetting(path, ValueAt(proposed, path))
       /\ WrongType(NodeAt(AllowedSettingsTable, path),
                    ValueAt(currentSettings, path), ValueAt(proposed, path))) =>
      /\ Len(result.errors) = 1
      /\ result.errors[1].msg \in InvalidValueMessages
      /\ result.errors[1].fqname = path
      /\ ~result.needToUpdate

\* the message the code has for a value of the wrong type at a field
WrongTypeMessage(node, v) ==
  IF v.t \in {"null", "object"} THEN {SimpleValueMessage}
  ELSE CASE node.fn \in {"checkBoolean", "checkNumber", "checkString",
                         "checkContainerEngine"} -> InvalidValueMessages
         [] node.fn = "checkKubernetesVersion" ->
              {"Kubernetes version \"${desiredVersion}\" not found."}
         [] node.fn = "checkUnchanged" ->
              {"Changing field ${fqname} via the API isn't supported."}
         [] node.fn = "checkPathManagementStrategy" ->
              {"${fqname}: \"${desiredValue}\" is not a valid strategy"}

\* C5 amended: a value of the wrong type at a scalar field appends exactly
\* one error and reports no change, whatever the current value; the error is
\* "Invalid value for <fqname>: ..." at a boolean, number, string or
\* container-engine field given a scalar other than null, and otherwise the
\* message of the field's own validator, or "should be a simple value" for
\* null and for an object.
C5_WrongTypeIsOneError ==
  \A path \in ScalarLeafPaths :
    (Returned("checkProposedSettings")
       /\ HoldsPath(proposed, path)
       /\ proposed = OneSetting(path, ValueAt(proposed, path))
       /\ WrongType(NodeAt(AllowedSettingsTable, path),
                    ValueAt(currentSettings, path), ValueAt(proposed, path))) =>
      /\ Len(result.errors) = 1
      /\ result.errors[1].msg \in WrongTypeMessage(NodeAt(AllowedSettingsTable, path),
                                                   ValueAt(proposed, path))
      /\ ~result.needToUpdate
      /\ ~result.thrown

C5_Witness ==
  /\ Returned("checkProposedSettings")
  /\ proposed = OneSetting(<<"kubernetes", "enabled">>, Str(S_true))
  /\ Len(result.errors) = 1
  /\ result.errors[1].msg \in InvalidValueMessages

----------------------------------------------------------------------------
(* C6 *)

\* the spellings a caller may give a current value of a field with synonyms
Spellings(field, current) ==
  CASE field = "containerEngine" ->
         {current} \cup (IF current = Str(S_moby) THEN {Str(S_docker)} ELSE {})
    [] field = "version" ->
         {current, Str(<<"v">> \o current.s),
          Str(current.s \o <<"+", "k", "3", "s", "1">>),
          Str(<<"v">> \o current.s \o <<"+", "k", "3", "s", "1">>)}
    [] field = "enabled" ->
         {current, IF current.b THEN Str(S_true) ELSE Str(S_false)}

SynonymFields == {"containerEngine", "version", "enabled"}

\* the proposal names only kubernetes fields that have synonyms, each with a
\* spelling of its current value
OnlySynonymSpellings(new, current) ==
  /\ Len(new.kv) = 1
  /\ new.kv[1].k = "kubernetes"
  /\ new.kv[1].v.t = "object"
  /\ Len(new.kv[1].v.kv) >= 1
  /\ \A i \in 1..Len(new.kv[1].v.kv) :
       /\ new.kv[1].v.kv[i].k \in SynonymFields
       /\ new.kv[1].v.kv[i].v \in
            Spellings(new.kv[1].v.kv[i].k,
                      ValueAt(current, <<"kubernetes", new.kv[1].v.kv[i].k>>))

CurrentVersionIsKnown(current) ==
  \E i \in 1..Len(k8sVersions) :
    Str(k8sVersions[i]) = ValueAt(current, <<"kubernetes", "version">>)

\* C6: validateSettings validates the canonical form: a proposal that only
\* respells current values (the current version being a known one) gives
\* ok = false and no error, and the call's result is the result of the call
\* on the tree written with the canonical values, which is the tree the call
\* leaves behind.
C6_SynonymsValidatedAsCanonical ==
  Returned("validateSettings") =>
    /\ (OnlySynonymSpellings(proposed, currentSettings)
          /\ CurrentVersionIsKnown(currentSettings)) =>
         (~result.thrown /\ ~result.ok /\ result.errors = <<>>)
    /\ result = validateSettings(allowedSettings, synonymsTable, k8sVersions,
                                 currentSettings, result.newSettings)

\* two fields respelled, and the call rewrote them
C6_Witness ==
  /\ Returned("validateSettings")
  /\ OnlySynonymSpellings(proposed, currentSettings)
  /\ CurrentVersionIsKnown(currentSettings)
  /\ Len(proposed.kv[1].v.kv) = 2
  /\ \A i \in 1..2 : result.newSettings.kv[1].v.kv[i].v # proposed.kv[1].v.kv[i].v
  /\ ~result.ok /\ result.errors = <<>>

----------------------------------------------------------------------------
(* C7 *)

\* C7: canonicalizeSynonyms applied to the tree it left behind leaves that
\* tree as it is, and each leaf canonicalizer leaves its own output as it is.
C7_CanonicalizationIdempotent ==
  /\ Returned("canonicalizeSynonyms") =>
       LET again == canonicalizeSynonyms(synonymsTable, result.newSettings)
       IN again.v = result.newSettings /\ again.thrown = result.thrown
  /\ \A v \in TestValues :
       /\ canonicalizeKubernetesVersion(canonicalizeKubernetesVersion(v).v)
            = canonicalizeKubernetesVersion(v)
       /\ canonicalizeContainerEngine(canonicalizeContainerEngine(v).v)
            = canonicalizeContainerEngine(v)
       /\ canonicalizeBool(canonicalizeBool(v).v) = canonicalizeBool(v)

\* a version with both the prefix and the suffix was rewritten
C7_Witness ==
  /\ Returned("canonicalizeSynonyms")
  /\ proposed = OneSetting(<<"kubernetes", "version">>, Str(S_v1_2_3_k3s1))
  /\ result.newSettings = OneSetting(<<"kubernetes", "version">>, Str(S_1_2_3))

----------------------------------------------------------------------------
(* C8 *)

\* C8: the wildcard-map check appends no error exactly when the two maps
\* hold the same entries, in whatever order.
C8_MapCheckIgnoresKeyOrder ==
  Returned("checkWSLIntegrations") =>
    (result.errors = <<>>) = SameEntries(currentSettings, proposed)

----------------------------------------------------------------------------
(* C9 *)

\* C9: where the verifier has an inner object and the proposed value is not
\* a structured object, the walk appends the "should wrap an inner object"
\* error for that position and calls no validator below it.
C9_NonObjectAtInteriorIsError ==
  \A path \in InteriorPaths :
    (Returned("checkProposedSettings") /\ ~result.thrown
       /\ HoldsPath(proposed, path) /\ ValueAt(proposed, path).t # "object") =>
      /\ \E i \in 1..Len(result.errors) :
           result.errors[i] = Err(ShouldWrapMessage, path, ValueAt(proposed, path))
      /\ \A i \in 1..Len(result.calls) : ~IsPrefix(path, result.calls[i].fqname)

----------------------------------------------------------------------------
(* C10 *)

\* C10: validateSettings returns a result for every proposed tree; it never
\* throws.
C10_NeverThrows == Returned("validateSettings") => ~result.thrown

====
